---- MODULE Spec2Model ----
(***************************************************************************)
(* Model of preen's check-and-fix engine:                                  *)
(*   - run_checks           (src/preen/checks/runner.py)                   *)
(*   - the `check` command  (src/preen/cli.py), the remediation driver     *)
(*   - Issue / CheckResult  (src/preen/checks/base.py)                     *)
(* SpecRunner explores run_checks over bounded check_classes/skip/only;    *)
(* SpecDriver explores the `check` command over bounded result mappings.   *)
(***************************************************************************)
EXTENDS Integers, Sequences, FiniteSets, TLC

\* ------------------------------------------------------------------ bounds
MaxClasses == 3
MaxResults == 2
MaxIssues == 2

Names == {"lint", "tests", "deps"}
Durations == {0, 1}
Severity == {"error", "warning", "info"}

VARIABLES
    \* run_checks
    check_classes,   \* argument: sequence of check classes (a class is its name; its index is its identity)
    skip_arg,        \* argument skip: Optional[List[str]]
    only,            \* argument only: Optional[List[str]]
    skip,            \* local skip after `skip = skip or []`
    rpc,             \* position inside run_checks
    idx,             \* position of the for loop over check_classes
    run_results,     \* local dict `results` of run_checks (insertion ordered)
    ran,             \* indices of the classes whose run() was invoked, in call order
    class_results,   \* the CheckResult each class's run() returns, by class index (check command only)
    \* check command
    results,         \* mapping returned by run_checks, as the sequence of its values in iteration order
    fix,             \* --fix
    strict,          \* --strict
    pc,              \* position inside check()
    ci,              \* position of the collect loop over results.items()
    total_issues,
    has_errors,
    fixable_issues,  \* list of references to issues: <<result index, issue index>>
    k,               \* position of the fix loops over fixable_issues
    applied,         \* issues whose proposed_fix.apply() was invoked, in call order
    prompts,         \* typer.confirm calls, in call order
    reported,        \* issues printed by the "Show issues" loop
    summary,         \* which summary line was printed
    exit_code,       \* 1 when typer.Exit(code=1) was raised, 0 on normal return
    apply_raised,    \* an exception of a Fix.apply() call is propagating
    \* CheckResult properties and Issue.__str__
    cr_self,         \* the CheckResult whose properties are read
    evaluated,       \* the properties read so far
    res_has_errors,  \* value read from cr_self.has_errors
    res_has_warnings,\* value read from cr_self.has_warnings
    issue_self,      \* the Issue that is rendered
    rendered         \* str(issue_self), "" before the call

runnerVars == <<check_classes, skip_arg, only, skip, rpc, idx, run_results, ran, class_results>>
driverVars == <<results, fix, strict, pc, ci, total_issues, has_errors,
                fixable_issues, k, applied, prompts, reported, summary, exit_code,
                apply_raised>>
pureVars == <<cr_self, evaluated, res_has_errors, res_has_warnings, issue_self, rendered>>
vars == <<runnerVars, driverVars, pureVars>>

\* ------------------------------------------------------- Optional[List[str]]
\* None and a list are told apart by isNone; a list is used only through
\* truthiness and `in`, so it is kept as the set of its items.
NoneList == [isNone |-> TRUE, items |-> {}]
ListOf(s) == [isNone |-> FALSE, items |-> s]
OptLists == {NoneList} \cup {ListOf(s) : s \in SUBSET Names}

\* mutant of Truthy: `is not None` instead of truthiness
TruthyIsNotNone(l) == ~l.isNone
\* Python truthiness of an Optional[List]: None and [] are falsy
Truthy(l) == (~l.isNone) /\ l.items # {}

\* `x or []`
OrEmpty(l) == IF Truthy(l) THEN l ELSE ListOf({})

\* ------------------------------------------------------------ Python dict
\* An insertion-ordered dict is a sequence of [key, value] entries.
HasKey(d, key) == \E i \in 1..Len(d) : d[i].key = key

\* mutant of DictSet: an existing key keeps its first value
DictSetFirstWins(d, key, value) ==
    IF HasKey(d, key) THEN d ELSE Append(d, [key |-> key, value |-> value])
\* d[key] = value: an existing key keeps its position and takes the new value
DictSet(d, key, value) ==
    IF HasKey(d, key)
    THEN [i \in 1..Len(d) |-> IF d[i].key = key THEN [key |-> key, value |-> value] ELSE d[i]]
    ELSE Append(d, [key |-> key, value |-> value])

\* ------------------------------------------------------------- run_checks
RunnerIdle ==
    /\ check_classes = <<>>
    /\ skip_arg = NoneList
    /\ only = NoneList
    /\ skip = NoneList
    /\ rpc = "idle"
    /\ idx = 0
    /\ run_results = <<>>
    /\ ran = <<>>
    /\ class_results = <<>>

DriverIdle ==
    /\ results = <<>>
    /\ fix = FALSE
    /\ strict = FALSE
    /\ pc = "idle"
    /\ ci = 0
    /\ total_issues = 0
    /\ has_errors = FALSE
    /\ fixable_issues = <<>>
    /\ k = 0
    /\ applied = <<>>
    /\ prompts = <<>>
    /\ reported = <<>>
    /\ summary = "none"
    /\ exit_code = 0
    /\ apply_raised = FALSE

\* no CheckResult property is read and no Issue is rendered
PureIdle ==
    /\ cr_self = [passed |-> TRUE, issues |-> <<>>]
    /\ evaluated = {}
    /\ res_has_errors = FALSE
    /\ res_has_warnings = FALSE
    /\ issue_self = [check |-> "", severity |-> "info", description |-> "",
                     file |-> [isNone |-> TRUE, value |-> ""],
                     line |-> [isNone |-> TRUE, value |-> 0]]
    /\ rendered = ""

InitRunner ==
    /\ check_classes \in UNION {[1..n -> Names] : n \in 0..MaxClasses}
    /\ skip_arg \in OptLists
    /\ only \in OptLists
    /\ skip = skip_arg
    /\ rpc = "start"
    /\ idx = 0
    /\ run_results = <<>>
    /\ ran = <<>>
    /\ class_results = <<>>
    /\ DriverIdle
    /\ PureIdle

\* results = {} ; skip = skip or []
RunnerStart ==
    /\ rpc = "start"
    /\ run_results' = <<>>
    /\ skip' = OrEmpty(skip_arg)
    /\ idx' = 1
    /\ rpc' = "loop"
    /\ UNCHANGED <<class_results, check_classes, skip_arg, only, ran, driverVars, pureVars>>

InLoop == rpc = "loop" /\ idx <= Len(check_classes)

\* if check.name in skip: continue
RunnerSkip ==
    /\ InLoop
    /\ check_classes[idx] \in skip.items
    /\ idx' = idx + 1
    /\ UNCHANGED <<class_results, check_classes, skip_arg, only, skip, rpc, run_results, ran, driverVars, pureVars>>

\* if only and check.name not in only: continue
RunnerOnlyOmit ==
    /\ InLoop
    /\ check_classes[idx] \notin skip.items
    /\ Truthy(only) /\ check_classes[idx] \notin only.items
    /\ idx' = idx + 1
    /\ UNCHANGED <<class_results, check_classes, skip_arg, only, skip, rpc, run_results, ran, driverVars, pureVars>>

Selected ==
    /\ InLoop
    /\ check_classes[idx] \notin skip.items
    /\ ~(Truthy(only) /\ check_classes[idx] \notin only.items)

\* mutant of RunnerRun: a class whose name already has a result is not run
RunnerRunOncePerName ==
    /\ Selected
    /\ ran' = IF HasKey(run_results, check_classes[idx]) THEN ran ELSE Append(ran, idx)
    /\ \E d \in Durations :
          run_results' = DictSetFirstWins(run_results, check_classes[idx],
                                          [by |-> idx, duration |-> d])
    /\ idx' = idx + 1
    /\ UNCHANGED <<class_results, check_classes, skip_arg, only, skip, rpc, driverVars, pureVars>>
\* result = check.run(); result.duration = ...; results[check.name] = result
\* The CheckResult returned by the idx-th class is identified by `by`.
RunnerRun ==
    /\ Selected
    /\ ran' = Append(ran, idx)
    /\ \E d \in Durations :
          run_results' = DictSet(run_results, check_classes[idx], [by |-> idx, duration |-> d])
    /\ idx' = idx + 1
    /\ UNCHANGED <<class_results, check_classes, skip_arg, only, skip, rpc, driverVars, pureVars>>

\* check.run() raises: nothing catches it, run_checks returns nothing
RunnerRunRaise ==
    /\ Selected
    /\ ran' = Append(ran, idx)
    /\ rpc' = "raised"
    /\ UNCHANGED <<class_results, check_classes, skip_arg, only, skip, idx, run_results, driverVars, pureVars>>

\* return results
RunnerReturn ==
    /\ rpc = "loop"
    /\ idx > Len(check_classes)
    /\ rpc' = "returned"
    /\ UNCHANGED <<class_results, check_classes, skip_arg, only, skip, idx, run_results, ran, driverVars, pureVars>>

NextRunner ==
    \/ RunnerStart
    \/ RunnerSkip
    \/ RunnerOnlyOmit
    \/ RunnerRun
    \/ RunnerRunRaise
    \/ RunnerReturn

SpecRunner == InitRunner /\ [][NextRunner]_vars

\* --------------------------------------------------------- check command
\* An Issue carries its severity and whether proposed_fix is a Fix or None.
Issues == [severity : Severity, proposed_fix : {"None", "Fix"}]
IssueListsUpTo(n) == UNION {[1..m -> Issues] : m \in 0..n}
\* A CheckResult: passed and the issue list are independent fields.
CheckResultsUpTo(n) == [passed : BOOLEAN, issues : IssueListsUpTo(n)]

RECURSIVE IssueCount(_)
IssueCount(rs) == IF rs = <<>> THEN 0 ELSE Len(Head(rs).issues) + IssueCount(Tail(rs))

\* the mappings of exactly n results that hold at most t issues together
RECURSIVE ResultMapsOf(_, _)
ResultMapsOf(n, t) ==
    IF n = 0 THEN {<<>>}
    ELSE UNION {{<<first>> \o rest : rest \in ResultMapsOf(n - 1, t - Len(first.issues))} :
                   first \in CheckResultsUpTo(t)}

\* the mappings check() may get: at most MaxResults results holding at most
\* MaxIssues issues together
ResultMaps == UNION {ResultMapsOf(n, MaxIssues) : n \in 0..MaxResults}

\* mutant of HasErrors: a passed result never has errors
HasErrorsUnlessPassed(result) ==
    (~result.passed) /\ \E j \in 1..Len(result.issues) : result.issues[j].severity = "error"
\* CheckResult.has_errors
HasErrors(result) ==
    \E j \in 1..Len(result.issues) : result.issues[j].severity = "error"

\* CheckResult.has_warnings
HasWarnings(result) ==
    \E j \in 1..Len(result.issues) : result.issues[j].severity = "warning"

\* the issues of the r-th result that carry a fix, in issue order
RECURSIVE FixableFrom(_, _, _)
FixableFrom(result, r, j) ==
    IF j > Len(result.issues) THEN <<>>
    ELSE (IF result.issues[j].proposed_fix # "None" THEN <<(<<r, j>>)>> ELSE <<>>)
         \o FixableFrom(result, r, j + 1)

\* every issue of the r-th result, in issue order
AllIssuesOf(result, r) == [j \in 1..Len(result.issues) |-> <<r, j>>]

InitDriver ==
    /\ results \in ResultMaps
    /\ fix \in BOOLEAN
    /\ strict \in BOOLEAN
    /\ pc = "collect"
    /\ ci = 1
    /\ total_issues = 0
    /\ has_errors = FALSE
    /\ fixable_issues = <<>>
    /\ k = 0
    /\ applied = <<>>
    /\ prompts = <<>>
    /\ reported = <<>>
    /\ summary = "none"
    /\ exit_code = 0
    /\ apply_raised = FALSE
    /\ RunnerIdle
    /\ PureIdle

InCollect == pc = "collect" /\ ci <= Len(results)

\* mutant of CollectPassed: the issues of a passed result are counted and collected
CollectPassedCounts ==
    /\ InCollect
    /\ results[ci].passed
    /\ has_errors' = (has_errors \/ HasErrors(results[ci]))
    /\ total_issues' = total_issues + Len(results[ci].issues)
    /\ fixable_issues' = fixable_issues \o FixableFrom(results[ci], ci, 1)
    /\ ci' = ci + 1
    /\ UNCHANGED <<apply_raised, results, fix, strict, pc, k, applied, prompts, reported,
                   summary, exit_code, runnerVars, pureVars>>
\* collect loop, a result with passed=True: only a table row is added
CollectPassed ==
    /\ InCollect
    /\ results[ci].passed
    /\ ci' = ci + 1
    /\ UNCHANGED <<apply_raised, results, fix, strict, pc, total_issues, has_errors, fixable_issues,
                   k, applied, prompts, reported, summary, exit_code, runnerVars, pureVars>>

\* collect loop, a result with passed=False
CollectFailed ==
    /\ InCollect
    /\ ~results[ci].passed
    /\ has_errors' = (has_errors \/ HasErrors(results[ci]))
    /\ total_issues' = total_issues + Len(results[ci].issues)
    /\ fixable_issues' = fixable_issues \o FixableFrom(results[ci], ci, 1)
    /\ ci' = ci + 1
    /\ UNCHANGED <<apply_raised, results, fix, strict, pc, k, applied, prompts, reported, summary,
                   exit_code, runnerVars, pureVars>>

\* end of the collect loop: console.print(table)
CollectDone ==
    /\ pc = "collect"
    /\ ci > Len(results)
    /\ pc' = "summary"
    /\ UNCHANGED <<apply_raised, results, fix, strict, ci, total_issues, has_errors, fixable_issues,
                   k, applied, prompts, reported, summary, exit_code, runnerVars, pureVars>>

\* if total_issues == 0: "All checks passed!"
SummaryAllPassed ==
    /\ pc = "summary"
    /\ total_issues = 0
    /\ summary' = "all_passed"
    /\ pc' = "exit"
    /\ UNCHANGED <<apply_raised, results, fix, strict, ci, total_issues, has_errors, fixable_issues,
                   k, applied, prompts, reported, exit_code, runnerVars, pureVars>>

\* the issues printed by the "Show issues" loop: those of the failed results
RECURSIVE FailedIssues(_, _)
FailedIssues(rs, r) ==
    IF r > Len(rs) THEN <<>>
    ELSE (IF ~rs[r].passed THEN AllIssuesOf(rs[r], r) ELSE <<>>) \o FailedIssues(rs, r + 1)

\* else: "Found N issue(s)" and the issues of every failed result
SummaryFound ==
    /\ pc = "summary"
    /\ total_issues # 0
    /\ summary' = "found"
    /\ reported' = FailedIssues(results, 1)
    /\ pc' = "fixes"
    /\ UNCHANGED <<apply_raised, results, fix, strict, ci, total_issues, has_errors, fixable_issues,
                   k, applied, prompts, exit_code, runnerVars, pureVars>>

\* mutant of InteractiveMode: `else` instead of `elif not strict`
InteractiveModeIgnoresStrict == ~fix
\* the branch taken by `elif not strict` after `if fix`
InteractiveMode == ~fix /\ ~strict

\* if fixable_issues: is false
FixesNone ==
    /\ pc = "fixes"
    /\ fixable_issues = <<>>
    /\ pc' = "exit"
    /\ UNCHANGED <<apply_raised, results, fix, strict, ci, total_issues, has_errors, fixable_issues,
                   k, applied, prompts, reported, summary, exit_code, runnerVars, pureVars>>

\* neither `if fix` nor `elif not strict`
FixesStrict ==
    /\ pc = "fixes"
    /\ fixable_issues # <<>>
    /\ ~fix /\ ~InteractiveMode
    /\ pc' = "exit"
    /\ UNCHANGED <<apply_raised, results, fix, strict, ci, total_issues, has_errors, fixable_issues,
                   k, applied, prompts, reported, summary, exit_code, runnerVars, pureVars>>

\* mutant of FixesBulk: the loop starts at the second collected issue
FixesBulkSkipsFirst ==
    /\ pc = "fixes"
    /\ fixable_issues # <<>>
    /\ fix
    /\ k' = 2
    /\ pc' = "bulk"
    /\ UNCHANGED <<apply_raised, results, fix, strict, ci, total_issues, has_errors, fixable_issues,
                   applied, prompts, reported, summary, exit_code, runnerVars, pureVars>>
\* if fix: "Applying fixes..."
FixesBulk ==
    /\ pc = "fixes"
    /\ fixable_issues # <<>>
    /\ fix
    /\ k' = 1
    /\ pc' = "bulk"
    /\ UNCHANGED <<apply_raised, results, fix, strict, ci, total_issues, has_errors, fixable_issues,
                   applied, prompts, reported, summary, exit_code, runnerVars, pureVars>>

\* mutant of BulkApply: an applied fix is taken off total_issues
BulkApplyReducesTotal ==
    /\ pc = "bulk"
    /\ k <= Len(fixable_issues)
    /\ applied' = Append(applied, fixable_issues[k])
    /\ total_issues' = total_issues - 1
    /\ k' = k + 1
    /\ UNCHANGED <<apply_raised, results, fix, strict, pc, ci, has_errors, fixable_issues,
                   prompts, reported, summary, exit_code, runnerVars, pureVars>>
\* for issue in fixable_issues: issue.proposed_fix.apply()
BulkApply ==
    /\ pc = "bulk"
    /\ k <= Len(fixable_issues)
    /\ applied' = Append(applied, fixable_issues[k])
    /\ k' = k + 1
    /\ UNCHANGED <<apply_raised, results, fix, strict, pc, ci, total_issues, has_errors, fixable_issues,
                   prompts, reported, summary, exit_code, runnerVars, pureVars>>

\* mutant of BulkApplyRaise: the exception is caught and the loop goes on
BulkApplyRaiseCaught ==
    /\ pc = "bulk"
    /\ k <= Len(fixable_issues)
    /\ applied' = Append(applied, fixable_issues[k])
    /\ apply_raised' = TRUE
    /\ k' = k + 1
    /\ UNCHANGED <<results, fix, strict, pc, ci, total_issues, has_errors, fixable_issues,
                   prompts, reported, summary, exit_code, runnerVars, pureVars>>
\* apply() raises inside the bulk loop: nothing catches it
BulkApplyRaise ==
    /\ pc = "bulk"
    /\ k <= Len(fixable_issues)
    /\ applied' = Append(applied, fixable_issues[k])
    /\ pc' = "raised"
    /\ apply_raised' = TRUE
    /\ UNCHANGED <<results, fix, strict, ci, total_issues, has_errors, fixable_issues,
                   k, prompts, reported, summary, exit_code, runnerVars, pureVars>>

\* end of the bulk loop: "Fixes applied"
BulkDone ==
    /\ pc = "bulk"
    /\ k > Len(fixable_issues)
    /\ pc' = "exit"
    /\ UNCHANGED <<apply_raised, results, fix, strict, ci, total_issues, has_errors, fixable_issues,
                   k, applied, prompts, reported, summary, exit_code, runnerVars, pureVars>>

EnterPrompt(answer) == [kind |-> "enter", issue |-> <<0, 0>>, answer |-> answer]
IssuePrompt(issue, answer) == [kind |-> "issue", issue |-> issue, answer |-> answer]

\* typer.confirm("Apply fixes interactively?") answered yes
ConfirmAccept ==
    /\ pc = "fixes"
    /\ fixable_issues # <<>>
    /\ ~fix /\ InteractiveMode
    /\ prompts' = Append(prompts, EnterPrompt(TRUE))
    /\ k' = 1
    /\ pc' = "interactive"
    /\ UNCHANGED <<apply_raised, results, fix, strict, ci, total_issues, has_errors, fixable_issues,
                   applied, reported, summary, exit_code, runnerVars, pureVars>>

\* mutant of ConfirmDecline: the per-issue loop is entered all the same
ConfirmDeclineIgnored ==
    /\ pc = "fixes"
    /\ fixable_issues # <<>>
    /\ ~fix /\ InteractiveMode
    /\ prompts' = Append(prompts, EnterPrompt(FALSE))
    /\ k' = 1
    /\ pc' = "interactive"
    /\ UNCHANGED <<apply_raised, results, fix, strict, ci, total_issues, has_errors, fixable_issues,
                   applied, reported, summary, exit_code, runnerVars, pureVars>>
\* typer.confirm("Apply fixes interactively?") answered no
ConfirmDecline ==
    /\ pc = "fixes"
    /\ fixable_issues # <<>>
    /\ ~fix /\ InteractiveMode
    /\ prompts' = Append(prompts, EnterPrompt(FALSE))
    /\ pc' = "exit"
    /\ UNCHANGED <<apply_raised, results, fix, strict, ci, total_issues, has_errors, fixable_issues,
                   k, applied, reported, summary, exit_code, runnerVars, pureVars>>

InInteractive == pc = "interactive" /\ k <= Len(fixable_issues)

\* typer.confirm("Apply this fix?") answered yes: apply(), "Fixed"
InteractiveYes ==
    /\ InInteractive
    /\ prompts' = Append(prompts, IssuePrompt(fixable_issues[k], TRUE))
    /\ applied' = Append(applied, fixable_issues[k])
    /\ k' = k + 1
    /\ UNCHANGED <<apply_raised, results, fix, strict, pc, ci, total_issues, has_errors, fixable_issues,
                   reported, summary, exit_code, runnerVars, pureVars>>

\* answered yes and apply() raises: nothing catches it
InteractiveYesRaise ==
    /\ InInteractive
    /\ prompts' = Append(prompts, IssuePrompt(fixable_issues[k], TRUE))
    /\ applied' = Append(applied, fixable_issues[k])
    /\ pc' = "raised"
    /\ apply_raised' = TRUE
    /\ UNCHANGED <<results, fix, strict, ci, total_issues, has_errors, fixable_issues,
                   k, reported, summary, exit_code, runnerVars, pureVars>>

\* mutant of InteractiveNo: a "no" leaves the loop
InteractiveNoBreaks ==
    /\ InInteractive
    /\ prompts' = Append(prompts, IssuePrompt(fixable_issues[k], FALSE))
    /\ pc' = "exit"
    /\ UNCHANGED <<apply_raised, results, fix, strict, ci, total_issues, has_errors, fixable_issues,
                   k, applied, reported, summary, exit_code, runnerVars, pureVars>>
\* typer.confirm("Apply this fix?") answered no: "Skipped"
InteractiveNo ==
    /\ InInteractive
    /\ prompts' = Append(prompts, IssuePrompt(fixable_issues[k], FALSE))
    /\ k' = k + 1
    /\ UNCHANGED <<apply_raised, results, fix, strict, pc, ci, total_issues, has_errors, fixable_issues,
                   applied, reported, summary, exit_code, runnerVars, pureVars>>

\* end of the interactive loop
InteractiveDone ==
    /\ pc = "interactive"
    /\ k > Len(fixable_issues)
    /\ pc' = "exit"
    /\ UNCHANGED <<apply_raised, results, fix, strict, ci, total_issues, has_errors, fixable_issues,
                   k, applied, prompts, reported, summary, exit_code, runnerVars, pureVars>>

\* mutant of ExitCode: only ERROR issues fail a strict run
ExitCodeErrorsOnly(s, total, errors) == IF s /\ errors THEN 1 ELSE 0
\* if strict and (total_issues > 0 or has_errors): raise typer.Exit(code=1)
ExitCode(s, total, errors) == IF s /\ (total > 0 \/ errors) THEN 1 ELSE 0

ExitDecision ==
    /\ pc = "exit"
    /\ exit_code' = ExitCode(strict, total_issues, has_errors)
    /\ pc' = "done"
    /\ UNCHANGED <<apply_raised, results, fix, strict, ci, total_issues, has_errors, fixable_issues,
                   k, applied, prompts, reported, summary, runnerVars, pureVars>>

NextDriver ==
    \/ CollectPassed
    \/ CollectFailed
    \/ CollectDone
    \/ SummaryAllPassed
    \/ SummaryFound
    \/ FixesNone
    \/ FixesStrict
    \/ FixesBulk
    \/ BulkApply
    \/ BulkApplyRaise
    \/ BulkDone
    \/ ConfirmAccept
    \/ ConfirmDecline
    \/ InteractiveYes
    \/ InteractiveYesRaise
    \/ InteractiveNo
    \/ InteractiveDone
    \/ ExitDecision

SpecDriver == InitDriver /\ [][NextDriver]_vars

\* ------------------------------------- check command calling run_checks
\* what the run() of a check class may return
SampleResults ==
    {[passed |-> TRUE, issues |-> <<>>],
     [passed |-> FALSE, issues |-> <<[severity |-> "error", proposed_fix |-> "Fix"]>>],
     [passed |-> FALSE, issues |-> <<[severity |-> "warning", proposed_fix |-> "None"]>>]}
\* the --skip and --only options tried
CheckSkips == {NoneList, ListOf({"lint"})}
CheckOnlys == {NoneList, ListOf({"lint", "tests"})}

\* check() up to the call of run_checks
InitCheck ==
    /\ check_classes \in UNION {[1..n -> Names] : n \in 0..MaxClasses}
    /\ class_results \in [1..Len(check_classes) -> SampleResults]
    /\ skip_arg \in CheckSkips
    /\ only \in CheckOnlys
    /\ skip = skip_arg
    /\ rpc = "start"
    /\ idx = 0
    /\ run_results = <<>>
    /\ ran = <<>>
    /\ results = <<>>
    /\ fix \in BOOLEAN
    /\ strict \in BOOLEAN
    /\ pc = "run_checks"
    /\ ci = 0
    /\ total_issues = 0
    /\ has_errors = FALSE
    /\ fixable_issues = <<>>
    /\ k = 0
    /\ applied = <<>>
    /\ prompts = <<>>
    /\ reported = <<>>
    /\ summary = "none"
    /\ exit_code = 0
    /\ apply_raised = FALSE
    /\ PureIdle

\* the values of the returned dict, in iteration order
ReturnedResults == [i \in 1..Len(run_results) |-> class_results[run_results[i].value.by]]

\* mutant of CheckReturn: an exception of run_checks is swallowed and the
\* command goes on with what was gathered
CheckReturnOnRaise ==
    /\ pc = "run_checks"
    /\ rpc \in {"returned", "raised"}
    /\ results' = ReturnedResults
    /\ total_issues' = 0
    /\ has_errors' = FALSE
    /\ fixable_issues' = <<>>
    /\ ci' = 1
    /\ pc' = "collect"
    /\ run_results' = <<>>
    /\ UNCHANGED <<fix, strict, k, applied, prompts, reported, summary, exit_code,
                   apply_raised, check_classes, skip_arg, only, skip, rpc, idx, ran,
                   class_results, pureVars>>
\* results = run_checks(...); total_issues = 0; has_errors = False; fixable_issues = []
\* The dict of run_checks becomes `results` (check() never reads duration) and
\* the frame of run_checks is gone.
CheckReturn ==
    /\ pc = "run_checks"
    /\ rpc = "returned"
    /\ results' = ReturnedResults
    /\ total_issues' = 0
    /\ has_errors' = FALSE
    /\ fixable_issues' = <<>>
    /\ ci' = 1
    /\ pc' = "collect"
    /\ run_results' = <<>>
    /\ UNCHANGED <<fix, strict, k, applied, prompts, reported, summary, exit_code,
                   apply_raised, check_classes, skip_arg, only, skip, rpc, idx, ran,
                   class_results, pureVars>>

NextCheck ==
    \/ NextRunner
    \/ CheckReturn
    \/ NextDriver

SpecCheck == InitCheck /\ [][NextCheck]_vars

\* ------------------------------------------- CheckResult.has_errors/has_warnings
InitResult ==
    /\ cr_self \in CheckResultsUpTo(MaxIssues)
    /\ evaluated = {}
    /\ res_has_errors = FALSE
    /\ res_has_warnings = FALSE
    /\ issue_self = [check |-> "", severity |-> "info", description |-> "",
                     file |-> [isNone |-> TRUE, value |-> ""],
                     line |-> [isNone |-> TRUE, value |-> 0]]
    /\ rendered = ""
    /\ RunnerIdle
    /\ DriverIdle

\* read cr_self.has_errors
ReadHasErrors ==
    /\ "has_errors" \notin evaluated
    /\ res_has_errors' = HasErrors(cr_self)
    /\ evaluated' = evaluated \cup {"has_errors"}
    /\ UNCHANGED <<cr_self, res_has_warnings, issue_self, rendered, runnerVars, driverVars>>

\* read cr_self.has_warnings
ReadHasWarnings ==
    /\ "has_warnings" \notin evaluated
    /\ res_has_warnings' = HasWarnings(cr_self)
    /\ evaluated' = evaluated \cup {"has_warnings"}
    /\ UNCHANGED <<cr_self, res_has_errors, issue_self, rendered, runnerVars, driverVars>>

NextResult ==
    \/ ReadHasErrors
    \/ ReadHasWarnings

SpecResult == InitResult /\ [][NextResult]_vars

\* ------------------------------------------------------------ Issue.__str__
\* Optional[Path] and Optional[int]: None or a value
NoPath == [isNone |-> TRUE, value |-> ""]
PathOf(f) == [isNone |-> FALSE, value |-> f]
NoLine == [isNone |-> TRUE, value |-> 0]
LineOf(n) == [isNone |-> FALSE, value |-> n]
Paths == {"a.py", "src/b.py"}
Lines == {0, 1, 10}
Descriptions == {"line too long", "unused import"}
CheckLabels == {"lint", "deps"}

IssueObjects ==
    [check : CheckLabels, severity : Severity, description : Descriptions,
     file : {NoPath} \cup {PathOf(f) : f \in Paths},
     line : {NoLine} \cup {LineOf(n) : n \in Lines}]

\* `if self.file:` a Path is truthy, None is not
FileTruthy(f) == ~f.isNone
\* `if self.line:` None and 0 are falsy
LineTruthy(l) == (~l.isNone) /\ l.value # 0

\* Issue.__str__
IssueStr(i) ==
    LET location ==
            IF FileTruthy(i.file)
            THEN " in " \o i.file.value
                 \o (IF LineTruthy(i.line) THEN ":" \o ToString(i.line.value) ELSE "")
            ELSE ""
    IN  "[" \o i.severity \o "] " \o i.check \o ": " \o i.description \o location

InitIssue ==
    /\ issue_self \in IssueObjects
    /\ rendered = ""
    /\ cr_self = [passed |-> TRUE, issues |-> <<>>]
    /\ evaluated = {}
    /\ res_has_errors = FALSE
    /\ res_has_warnings = FALSE
    /\ RunnerIdle
    /\ DriverIdle

\* str(issue_self)
RenderIssue ==
    /\ rendered = ""
    /\ rendered' = IssueStr(issue_self)
    /\ UNCHANGED <<issue_self, cr_self, evaluated, res_has_errors, res_has_warnings,
                   runnerVars, driverVars>>

NextIssue == RenderIssue

SpecIssue == InitIssue /\ [][NextIssue]_vars

\* --------------------------------------------- properties of the check command
Collected == pc \notin {"idle", "collect"}

\* every issue with a fix, of every result, in (result, issue) order
RECURSIVE AllFixable(_, _)
AllFixable(rs, r) ==
    IF r > Len(rs) THEN <<>> ELSE FixableFrom(rs[r], r, 1) \o AllFixable(rs, r + 1)

\* C2: after Collect, the fixable-issue list holds every issue with a
\* non-null Fix of ALL results (whatever their passed flag), once each, in
\* result order and then issue order.
CollectAllFixable ==
    Collected => fixable_issues = AllFixable(results, 1)

\* C3: after Collect, total_issues is the sum of len(issues) over every
\* result and has_errors is the OR of has_errors over every result,
\* whatever the passed flags.
CollectAggregatesAll ==
    Collected =>
        /\ total_issues = IssueCount(results)
        /\ has_errors = (\E r \in 1..Len(results) : HasErrors(results[r]))

\* C4: at the exit decision the command fails (exit code 1) iff strict is
\* set and (total_issues > 0 or has_errors); every other run, any
\* non-strict one included, succeeds.
ExitDecisionStrict ==
    pc = "done" =>
        /\ exit_code \in {0, 1}
        /\ (exit_code = 1) <=> (strict /\ (total_issues > 0 \/ has_errors))
        /\ ~strict => exit_code = 0

\* a strict run failed although no collected issue is an ERROR
ExitDecisionStrictWitness ==
    /\ pc = "done"
    /\ strict
    /\ total_issues > 0
    /\ ~has_errors
    /\ exit_code = 1

FailedTotal == Len(FailedIssues(results, 1))
FailedErrors == \E r \in 1..Len(results) : ~results[r].passed /\ HasErrors(results[r])

\* C5: the aggregates are fixed once Collect is over, and the exit outcome
\* is a function of the result mapping and the strict flag alone: applying
\* fixes and the answers to the prompts do not change it.
ExitIndependentOfFixes ==
    /\ Collected => (total_issues = FailedTotal /\ has_errors = FailedErrors)
    /\ pc = "done" => exit_code = ExitCode(strict, FailedTotal, FailedErrors)

\* a strict run applied a fix and still failed
ExitIndependentOfFixesWitness ==
    /\ pc = "done"
    /\ applied # <<>>
    /\ exit_code = 1

\* <<r, j>> precedes <<r2, j2>> in (result, issue) order
Before(a, b) == a[1] < b[1] \/ (a[1] = b[1] /\ a[2] < b[2])

\* C6: with the fix flag set (strict or not) no prompt is ever issued, the
\* bulk loop has applied exactly the collected issues before its position,
\* and a run that ends has invoked apply() once per collected fixable issue,
\* in collection order (result order, then issue order).
BulkApplyAll ==
    fix =>
        /\ prompts = <<>>
        /\ pc = "bulk" => applied = SubSeq(fixable_issues, 1, k - 1)
        /\ pc = "done" =>
              /\ applied = fixable_issues
              /\ \A a, b \in 1..Len(applied) : a < b => Before(applied[a], applied[b])

\* a strict bulk run applied two fixes spread over two results
BulkApplyAllWitness ==
    /\ pc = "done"
    /\ fix /\ strict
    /\ Len(applied) = 2
    /\ applied[1][1] # applied[2][1]

\* C7: in strict mode without the fix flag no apply() is invoked and no
\* prompt is issued, whatever the results.
StrictNoFixNoApply ==
    (strict /\ ~fix) => (applied = <<>> /\ prompts = <<>>)

\* a strict run without fix ended although fixable issues were collected
StrictNoFixNoApplyWitness ==
    /\ pc = "done"
    /\ strict /\ ~fix
    /\ fixable_issues # <<>>

\* the issues of the per-issue prompts answered yes, in prompt order
RECURSIVE AcceptedIssues(_)
AcceptedIssues(ps) ==
    IF ps = <<>> THEN <<>>
    ELSE (IF Head(ps).answer THEN <<Head(ps).issue>> ELSE <<>>) \o AcceptedIssues(Tail(ps))

EnteredInteractive ==
    /\ InteractiveMode
    /\ prompts # <<>>
    /\ prompts[1].answer

\* C8: once the initial prompt is accepted, the interactive loop prompts
\* once per collected fixable issue in collection order, applies an issue's
\* fix iff its prompt was answered yes, and goes on to the next issue
\* whatever the answer.
InteractiveVisitsAll ==
    EnteredInteractive =>
        /\ pc = "interactive" => Len(prompts) = k
        /\ \A j \in 2..Len(prompts) :
              prompts[j].kind = "issue" /\ prompts[j].issue = fixable_issues[j - 1]
        /\ applied = AcceptedIssues(Tail(prompts))
        /\ pc = "done" => Len(prompts) = 1 + Len(fixable_issues)

\* an interactive run ended after a "no" followed by a "yes"
InteractiveVisitsAllWitness ==
    /\ pc = "done"
    /\ EnteredInteractive
    /\ Len(prompts) >= 3
    /\ ~prompts[2].answer
    /\ prompts[3].answer

\* C9: prompts are issued only for a non-empty fixable list and only in
\* interactive mode; the first is the single "enter remediation?" prompt;
\* when it is declined no further prompt and no apply() follows and the
\* exit decision is the one the aggregates give.
InteractiveDecline ==
    /\ fixable_issues = <<>> => prompts = <<>>
    /\ prompts # <<>> =>
          /\ InteractiveMode
          /\ prompts[1].kind = "enter"
          /\ \A j \in 2..Len(prompts) : prompts[j].kind = "issue"
    /\ (InteractiveMode /\ fixable_issues # <<>>
          /\ pc \in {"interactive", "exit", "done", "raised"}) => prompts # <<>>
    /\ (prompts # <<>> /\ ~prompts[1].answer) =>
          /\ Len(prompts) = 1
          /\ applied = <<>>
          /\ pc \in {"exit", "done"}
          /\ pc = "done" => exit_code = ExitCode(strict, FailedTotal, FailedErrors)

\* an interactive run ended after the initial prompt was declined
InteractiveDeclineWitness ==
    /\ pc = "done"
    /\ InteractiveMode
    /\ prompts # <<>>
    /\ ~prompts[1].answer

\* C13: when the k-th apply() raises, in the bulk loop or in the interactive
\* loop, the command stops there: the first k-1 fixes stay applied, apply()
\* was invoked for no issue after the k-th, no later prompt is issued and
\* the exit decision is not reached.
ApplyRaiseAborts ==
    apply_raised =>
        /\ pc = "raised"
        /\ exit_code = 0
        /\ k \in 1..Len(fixable_issues)
        /\ applied[Len(applied)] = fixable_issues[k]
        /\ fix => applied = SubSeq(fixable_issues, 1, k)
        /\ ~fix =>
              /\ Len(prompts) = k + 1
              /\ applied = AcceptedIssues(Tail(prompts))

\* the first of two collected fixes raised in the bulk loop
ApplyRaiseAbortsWitness ==
    /\ apply_raised
    /\ fix
    /\ k = 1
    /\ Len(fixable_issues) = 2
    /\ Len(applied) = 1

\* the second interactive apply() raised after the first fix was applied
ApplyRaiseInteractiveWitness ==
    /\ apply_raised
    /\ ~fix
    /\ k = 2
    /\ Len(applied) = 2

FailedWithIssues == \E r \in 1..Len(results) : ~results[r].passed /\ results[r].issues # <<>>

\* C16: a strict run fails iff some result with passed=False has a non-empty
\* issue list; a run without such a result prints "All checks passed"; the
\* issues of passed=True results are never counted, collected or applied.
StrictFailsOnFailedIssues ==
    /\ \A j \in 1..Len(fixable_issues) : ~results[fixable_issues[j][1]].passed
    /\ \A j \in 1..Len(applied) : ~results[applied[j][1]].passed
    /\ Collected => (total_issues > 0 <=> FailedWithIssues)
    /\ (pc = "done" /\ strict) => (exit_code = 1 <=> FailedWithIssues)
    /\ (pc = "done" /\ ~FailedWithIssues) =>
          (summary = "all_passed" /\ total_issues = 0 /\ applied = <<>>)

\* a strict --fix run succeeded with "All checks passed" on a passed=True
\* result holding a fixable issue and a passed=False result without issues
StrictFailsOnFailedIssuesWitness ==
    /\ pc = "done"
    /\ strict /\ fix
    /\ exit_code = 0
    /\ summary = "all_passed"
    /\ \E r \in 1..Len(results) :
          results[r].passed /\ FixableFrom(results[r], r, 1) # <<>>
    /\ \E r \in 1..Len(results) : ~results[r].passed /\ results[r].issues = <<>>

\* ------------------------------------------------- properties of run_checks
ClassNames == {check_classes[i] : i \in 1..Len(check_classes)}
KeySet(d) == {d[i].key : i \in 1..Len(d)}
RanSet == {ran[i] : i \in 1..Len(ran)}
RanWithName(key) == {i \in RanSet : check_classes[i] = key}
MaxOf(S) == CHOOSE m \in S : \A x \in S : x <= m
MinOf(S) == CHOOSE m \in S : \A x \in S : m <= x

ExpectedKeys ==
    LET minus == ClassNames \ skip_arg.items
    IN  IF only.items # {} THEN minus \cap only.items ELSE minus

\* C1: when run_checks returns, the key set of the mapping is the set of
\* names of check_classes minus skip, intersected with only exactly when
\* only is non-empty (None and [] both mean "no only filter"); a name in
\* both skip and only is therefore absent.
RunChecksKeySet ==
    rpc = "returned" =>
        /\ KeySet(run_results) = ExpectedKeys
        /\ \A n \in skip_arg.items \cap only.items : n \notin KeySet(run_results)

\* a returned, non-empty mapping where a class name is in both skip and only
RunChecksKeySetWitness ==
    /\ rpc = "returned"
    /\ run_results # <<>>
    /\ \E n \in skip_arg.items \cap only.items : n \in ClassNames

\* only=[] returned a non-empty mapping
OnlyEmptyListWitness ==
    /\ rpc = "returned"
    /\ ~only.isNone /\ only.items = {}
    /\ run_results # <<>>

\* C10: when run_checks returns, the mapping has one entry per name that was
\* run, the entry's value is the CheckResult of the LAST class run with that
\* name, and the keys iterate in the order in which the names were first
\* run, i.e. in check_classes order.
LastWriteWins ==
    rpc = "returned" =>
        /\ \A p, q \in 1..Len(run_results) :
              run_results[p].key = run_results[q].key => p = q
        /\ KeySet(run_results) = {check_classes[i] : i \in RanSet}
        /\ \A p \in 1..Len(run_results) :
              run_results[p].value.by = MaxOf(RanWithName(run_results[p].key))
        /\ \A p, q \in 1..Len(run_results) :
              p < q => MinOf(RanWithName(run_results[p].key))
                         < MinOf(RanWithName(run_results[q].key))

\* two classes with one name were run, with a class of another name between
LastWriteWinsWitness ==
    /\ rpc = "returned"
    /\ \E i, j, l \in RanSet :
          /\ i < j /\ j < l
          /\ check_classes[i] = check_classes[l]
          /\ check_classes[i] # check_classes[j]

\* ------------------------------ properties of check() calling run_checks
\* C14: when the run() of a check raises, run_checks ends there: run() was
\* invoked for no later class, the check command received no mapping, has
\* reported nothing, applied no fix, asked nothing and made no exit decision.
RunRaiseAborts ==
    rpc = "raised" =>
        /\ ran # <<>>
        /\ ran[Len(ran)] = idx
        /\ \A i \in RanSet : i <= idx
        /\ pc = "run_checks"
        /\ results = <<>>
        /\ reported = <<>>
        /\ summary = "none"
        /\ applied = <<>>
        /\ prompts = <<>>
        /\ exit_code = 0

\* the second of three selected checks raised after the first had found a
\* fixable issue
RunRaiseAbortsWitness ==
    /\ rpc = "raised"
    /\ fix /\ strict
    /\ idx = 2
    /\ Len(check_classes) = 3
    /\ ran = <<1, 2>>
    /\ skip_arg = NoneList /\ only = NoneList
    /\ class_results[1].issues # <<>>

\* the i-th class is omitted neither by skip nor by only
NotOmitted(i) ==
    /\ check_classes[i] \notin skip_arg.items
    /\ only.items = {} \/ check_classes[i] \in only.items

\* C15: run() is invoked once for each non-omitted element of check_classes,
\* duplicated names included, one after another in check_classes order, and
\* never for an omitted element; all of these calls are over before the
\* check command prompts or applies a fix.
RunOncePerSelected ==
    /\ \A a, b \in 1..Len(ran) : a < b => ran[a] < ran[b]
    /\ \A i \in RanSet : NotOmitted(i)
    /\ rpc = "loop" => RanSet = {i \in 1..(idx - 1) : NotOmitted(i)}
    /\ rpc = "returned" => RanSet = {i \in 1..Len(check_classes) : NotOmitted(i)}
    /\ (applied # <<>> \/ prompts # <<>> \/ pc \notin {"idle", "run_checks"}) =>
          rpc = "returned"

\* a fix was applied after two classes of one name were both run and a third
\* class was omitted
RunOncePerSelectedWitness ==
    /\ pc = "done"
    /\ applied # <<>>
    /\ Len(ran) < Len(check_classes)
    /\ \E i, j \in RanSet : i < j /\ check_classes[i] = check_classes[j]

\* ------------------------------------ properties of CheckResult and Issue
SeverityCount(issues, sev) ==
    Cardinality({j \in 1..Len(issues) : issues[j].severity = sev})

\* C11: has_errors is True iff at least one issue has severity ERROR and
\* has_warnings is True iff at least one has severity WARNING; both are
\* False for an empty issue list; neither looks at the passed flag.
ResultSeverityFlags ==
    /\ "has_errors" \in evaluated =>
          /\ res_has_errors <=> (SeverityCount(cr_self.issues, "error") >= 1)
          /\ cr_self.issues = <<>> => ~res_has_errors
    /\ "has_warnings" \in evaluated =>
          /\ res_has_warnings <=> (SeverityCount(cr_self.issues, "warning") >= 1)
          /\ cr_self.issues = <<>> => ~res_has_warnings

\* both properties were read on a passed=True result that holds an ERROR and
\* no WARNING
ResultSeverityFlagsWitness ==
    /\ evaluated = {"has_errors", "has_warnings"}
    /\ cr_self.passed
    /\ res_has_errors
    /\ ~res_has_warnings

\* the rendering the claim describes: the line suffix whenever a file is set
\* and a line number is present
ClaimedIssueStr(i) ==
    "[" \o i.severity \o "] " \o i.check \o ": " \o i.description
    \o (IF i.file.isNone THEN ""
        ELSE " in " \o i.file.value
             \o (IF i.line.isNone THEN "" ELSE ":" \o ToString(i.line.value)))

\* C12: str(issue) is "[severity] check: description", then " in <file>"
\* exactly when a file is set, then ":<line>" exactly when a file is set and
\* a line number is present, for every integer line, 0 included.
IssueStrRendering ==
    rendered # "" => rendered = ClaimedIssueStr(issue_self)

====
